---- MODULE Spec2Model ----
(***************************************************************************)
(* Sogou SCEL cell-dictionary decoder                                      *)
(* (imewlconverter-core/src/import/sogou_scel.rs).                         *)
(*                                                                         *)
(* The file buffer is kept in a sparse form: the 0x1540-byte header is     *)
(* given by its magic, its word count bytes and the leading bytes of its   *)
(* four string regions (every other header byte is zero), followed by the  *)
(* bytes after the header ("tail").  A slice &data[lo..hi] is the record   *)
(* [lo, hi] of absolute offsets into the buffer.  A Rust String is the     *)
(* sequence of its code points.                                            *)
(***************************************************************************)
EXTENDS Integers, Sequences, FiniteSets, TLC

VARIABLES data, overflow_checks, pc, offset, pinyin_table, dict_start,
          entries, result, info, starts,
          self_code, separator, word_list, call, ret

\* starts is a history variable: for each Record of entries, the offset in
\* the dictionary section at which the entry that produced it started.
\* self_code, separator and word_list are the arguments of a call to a
\* method of Code (data.rs) or to QQPinyinExport::export, call names the method called
\* and ret is what it returned.
vars == <<data, overflow_checks, pc, offset, pinyin_table, dict_start,
          entries, result, info, starts,
          self_code, separator, word_list, call, ret>>

\* the variables of the calls to Code and to the exporter
lib_vars == <<self_code, separator, word_list, call, ret>>

\* the variables of the SCEL decoder
scel_vars == <<data, overflow_checks, pc, offset, pinyin_table, dict_start,
               entries, result, info, starts>>

(***************************************************************************)
(* Bounds of the model.                                                    *)
(***************************************************************************)
\* Largest number of fragments the bytes after the header are built from.
MaxFrags == 4

\* Largest number of dictionary entries after the marker in the buffers of
\* EntrySpec.
MaxEntries == 3

\* Largest number of pinyin-table records in the buffers of TableSpec.
MaxRecords == 3

\* Largest number of positions of a Code in CodeSpec.
MaxPositions == 3

\* Largest number of Records of a list in ExportSpec.
MaxWords == 3

\* The safety cap on accepted entries.  The source's cap is 100000
\* (sogou_scel.rs:157); the model scales it down so that buffers within
\* MaxEntries reach it.
SafetyLimit == 2

(***************************************************************************)
(* Program constants.                                                      *)
(***************************************************************************)
HeaderSize == 5440           \* 0x1540
WordCountOffset == 292       \* 0x124
NameStart == 304             \* 0x130
CategoryStart == 824         \* 0x338
DescriptionStart == 1344     \* 0x540
ExampleStart == 3392         \* 0xd40
MagicLen == 12
DictLoopMargin == 14
LocatorMargin == 10
TableLoopMargin == 4

Magic == <<64, 21, 0, 0, 68, 67, 83, 1, 1, 0, 0, 0>>

(***************************************************************************)
(* Error values (error.rs) and results.                                    *)
(***************************************************************************)
ErrorParse(msg) == [variant |-> "Parse", msg |-> msg]

ErrorInvalidFormat(msg) == [variant |-> "InvalidFormat", msg |-> msg]

Ok(v) == [kind |-> "Ok", value |-> v]

Err(e) == [kind |-> "Err", error |-> e]

Panic(msg) == [kind |-> "Panic", msg |-> msg]

NoResult == [kind |-> "None"]

(***************************************************************************)
(* Buffer access.                                                          *)
(***************************************************************************)
RegionByte(region, start, i) ==
    IF i - start < Len(region) THEN region[i - start + 1] ELSE 0

\* data[i], for 0 <= i < d.len
ByteAt(d, i) ==
    IF i >= HeaderSize THEN d.tail[i - HeaderSize + 1]
    ELSE IF i < MagicLen THEN d.magic[i + 1]
    ELSE IF i >= WordCountOffset /\ i < WordCountOffset + 4
         THEN d.wc[i - WordCountOffset + 1]
    ELSE IF i >= ExampleStart THEN RegionByte(d.example, ExampleStart, i)
    ELSE IF i >= DescriptionStart THEN RegionByte(d.description, DescriptionStart, i)
    ELSE IF i >= CategoryStart THEN RegionByte(d.category, CategoryStart, i)
    ELSE IF i >= NameStart THEN RegionByte(d.name, NameStart, i)
    ELSE 0

\* u16::from_le_bytes([data[i], data[i + 1]])
U16At(d, i) == ByteAt(d, i) + 256 * ByteAt(d, i + 1)

Slice(lo, hi) == [lo |-> lo, hi |-> hi]

SliceLen(s) == s.hi - s.lo

(***************************************************************************)
(* String::from_utf16_lossy and str::encode_utf16().count().               *)
(***************************************************************************)
IsHighSurrogate(u) == u >= 55296 /\ u <= 56319

IsLowSurrogate(u) == u >= 56320 /\ u <= 57343

RECURSIVE from_utf16_lossy(_)
from_utf16_lossy(units) ==
    IF units = <<>> THEN <<>>
    ELSE LET u == Head(units)
             rest == Tail(units)
         IN IF ~IsHighSurrogate(u) /\ ~IsLowSurrogate(u)
            THEN <<u>> \o from_utf16_lossy(rest)
            ELSE IF IsHighSurrogate(u) /\ rest # <<>> /\ IsLowSurrogate(Head(rest))
            THEN <<65536 + (u - 55296) * 1024 + (Head(rest) - 56320)>>
                 \o from_utf16_lossy(Tail(rest))
            ELSE <<65533>> \o from_utf16_lossy(rest)

\* a count of the chars of the string instead of its UTF-16 code units
encode_utf16_count_Chars(str) == Len(str)

RECURSIVE encode_utf16_count(_)
encode_utf16_count(str) ==
    IF str = <<>> THEN 0
    ELSE (IF Head(str) >= 65536 THEN 2 ELSE 1) + encode_utf16_count(Tail(str))

\* bytes.chunks(2).map(|c| u16::from_le_bytes([c[0], c[1]])) on an
\* even-length slice
RECURSIVE Units(_, _)
Units(d, s) ==
    IF s.lo >= s.hi THEN <<>>
    ELSE <<U16At(d, s.lo)>> \o Units(d, Slice(s.lo + 2, s.hi))

(***************************************************************************)
(* nom: le_u16 and take(n).                                                *)
(***************************************************************************)
NomErr == [ok |-> FALSE]

le_u16(d, s) ==
    IF SliceLen(s) < 2 THEN NomErr
    ELSE [ok |-> TRUE, rest |-> Slice(s.lo + 2, s.hi), val |-> U16At(d, s.lo)]

take(n, s) ==
    IF SliceLen(s) < n THEN NomErr
    ELSE [ok |-> TRUE, rest |-> Slice(s.lo + n, s.hi), taken |-> Slice(s.lo, s.lo + n)]

(***************************************************************************)
(* find_dict_start.                                                        *)
(***************************************************************************)
\* a pattern that looks for an entry with a nonzero same_pinyin_count
DictPattern_CountFirst(d, i) ==
    /\ ByteAt(d, i) > 0
    /\ ByteAt(d, i + 1) = 0
    /\ ByteAt(d, i + 3) = 0

DictPattern(d, i) ==
    /\ ByteAt(d, i) = 0
    /\ ByteAt(d, i + 1) = 0
    /\ ByteAt(d, i + 2) > 0
    /\ ByteAt(d, i + 3) = 0

\* for i in from..end
RECURSIVE FindFrom(_, _, _)
FindFrom(d, i, end) ==
    IF i >= end THEN Err(ErrorParse("Could not find dictionary start"))
    ELSE IF DictPattern(d, i) THEN Ok(i)
    ELSE FindFrom(d, i + 1, end)

\* a scan that starts one byte behind the header
find_dict_start_SkipFirst(d) ==
    FindFrom(d, HeaderSize + 1, d.len - LocatorMargin)

find_dict_start(d) == FindFrom(d, HeaderSize, d.len - LocatorMargin)

(***************************************************************************)
(* read_utf16le_string and parse_scel_info.                                *)
(***************************************************************************)
\* a reader that ends the string at two zero units in a row only
RECURSIVE UnitsUntilZero_DoubleZero(_, _)
UnitsUntilZero_DoubleZero(d, s) ==
    IF SliceLen(s) < 2 THEN <<>>
    ELSE IF U16At(d, s.lo) = 0
            /\ (SliceLen(s) < 4 \/ U16At(d, s.lo + 2) = 0)
    THEN <<>>
    ELSE <<U16At(d, s.lo)>> \o UnitsUntilZero_DoubleZero(d, Slice(s.lo + 2, s.hi))

\* the code units of the range up to the first zero unit; a trailing odd
\* byte counts as a zero unit
RECURSIVE UnitsUntilZero(_, _)
UnitsUntilZero(d, s) ==
    IF s.lo >= s.hi THEN <<>>
    ELSE LET c == IF SliceLen(s) >= 2 THEN U16At(d, s.lo) ELSE 0
         IN IF c = 0 THEN <<>>
            ELSE <<c>> \o UnitsUntilZero(d, Slice(s.lo + 2, s.hi))

read_utf16le_string(d, s) == Ok(from_utf16_lossy(UnitsUntilZero(d, s)))

U32At(d, i) ==
    ByteAt(d, i) + 256 * ByteAt(d, i + 1) + 65536 * ByteAt(d, i + 2)
    + 16777216 * ByteAt(d, i + 3)

\* a magic check that compares the first four bytes only
MagicMatches_Prefix(d) == \A i \in 0..3 : ByteAt(d, i) = Magic[i + 1]

\* &data[0..12] == b"\x40\x15\x00\x00\x44\x43\x53\x01\x01\x00\x00\x00"
MagicMatches(d) == \A i \in 0..(MagicLen - 1) : ByteAt(d, i) = Magic[i + 1]

\* the word count and the four strings of a buffer that passed the checks
ScelInfoFields(d) ==
    LET name == read_utf16le_string(d, Slice(NameStart, CategoryStart))
        category == read_utf16le_string(d, Slice(CategoryStart, DescriptionStart))
        description == read_utf16le_string(d, Slice(DescriptionStart, ExampleStart))
        example == read_utf16le_string(d, Slice(ExampleStart, HeaderSize))
    IN IF name.kind # "Ok" THEN name
       ELSE IF category.kind # "Ok" THEN category
       ELSE IF description.kind # "Ok" THEN description
       ELSE IF example.kind # "Ok" THEN example
       ELSE Ok([name |-> name.value,
                category |-> category.value,
                description |-> description.value,
                example |-> example.value,
                word_count |-> U32At(d, WordCountOffset)])

\* a metadata reader that also wants a locatable dictionary section
parse_scel_info_NeedsDict(d) ==
    IF d.len < HeaderSize
    THEN Err(ErrorParse("File too small to be valid SCEL"))
    ELSE IF ~MagicMatches(d)
    THEN Err(ErrorParse("Invalid SCEL magic number"))
    ELSE IF find_dict_start(d).kind # "Ok" THEN find_dict_start(d)
    ELSE ScelInfoFields(d)

parse_scel_info(d) ==
    IF d.len < HeaderSize
    THEN Err(ErrorParse("File too small to be valid SCEL"))
    ELSE IF ~MagicMatches(d)
    THEN Err(ErrorParse("Invalid SCEL magic number"))
    ELSE ScelInfoFields(d)

(***************************************************************************)
(* usize subtraction.  With overflow checks (debug builds) a subtraction   *)
(* below zero panics; without them (release builds) it wraps modulo 2^64.  *)
(* A wrapped value 2^64 + val (val < 0) is kept as [wrapped, val].         *)
(***************************************************************************)
usize_sub(a, b) == [wrapped |-> a < b, val |-> a - b]

\* x < u for a cursor x (far below 2^63) and a usize u
usize_lt(x, u) == u.wrapped \/ x < u.val

(***************************************************************************)
(* data.rs: Code and WordLibrary.                                          *)
(***************************************************************************)
CodeNew == <<>>

from_char_list(codes) == [i \in 1..Len(codes) |-> <<codes[i]>>]

RECURSIVE get_default_codes(_)
get_default_codes(code) ==
    IF code = <<>> THEN <<>>
    ELSE (IF Head(code) = <<>> THEN <<>> ELSE <<Head(Head(code))>>)
         \o get_default_codes(Tail(code))

RECURSIVE join(_, _)
join(strs, sep) ==
    IF strs = <<>> THEN <<>>
    ELSE IF Len(strs) = 1 THEN strs[1]
    ELSE strs[1] \o sep \o join(Tail(strs), sep)

to_string_with_separator(code, sep) == join(get_default_codes(code), sep)

\* Code::is_empty
is_empty(c) == c = <<>> \/ \A i \in 1..Len(c) : c[i] = <<>>

\* Code::cartesian_product.  ForCodes is the loop over the positions,
\* ForExisting the loop over the strings built so far, PushCodes the loop
\* over the candidates of the position.
PushCodes(existing, codes) ==
    [k \in 1..Len(codes) |-> existing \o codes[k]]

\* loops nested the other way round: for code in codes, for existing in
\* &result
RECURSIVE ForExisting_CodeOuter(_, _)
ForExisting_CodeOuter(res, codes) ==
    IF codes = <<>> THEN <<>>
    ELSE [k \in 1..Len(res) |-> res[k] \o Head(codes)]
         \o ForExisting_CodeOuter(res, Tail(codes))

RECURSIVE ForExisting(_, _)
ForExisting(res, codes) ==
    IF res = <<>> THEN <<>>
    ELSE PushCodes(Head(res), codes) \o ForExisting(Tail(res), codes)

RECURSIVE ForCodes(_, _)
ForCodes(positions, res) ==
    IF positions = <<>> THEN res
    ELSE ForCodes(Tail(positions),
                  IF Head(positions) = <<>> THEN res
                  ELSE ForExisting(res, Head(positions)))

cartesian_product(c) ==
    IF c = <<>> THEN <<>> ELSE ForCodes(c, << <<>> >>)

\* Code::cartesian_product_with_separator; i is the index of enumerate()
PushCodesSep(existing, codes, i, sep) ==
    [k \in 1..Len(codes) |->
        (IF i > 0 /\ existing # <<>> THEN existing \o sep ELSE existing)
        \o codes[k]]

RECURSIVE ForExistingSep(_, _, _, _)
ForExistingSep(res, codes, i, sep) ==
    IF res = <<>> THEN <<>>
    ELSE PushCodesSep(Head(res), codes, i, sep)
         \o ForExistingSep(Tail(res), codes, i, sep)

RECURSIVE ForCodesSep(_, _, _, _)
ForCodesSep(c, i, res, sep) ==
    IF i >= Len(c) THEN res
    ELSE ForCodesSep(c, i + 1,
                     IF c[i + 1] = <<>> THEN res
                     ELSE ForExistingSep(res, c[i + 1], i, sep),
                     sep)

cartesian_product_with_separator(c, sep) ==
    IF c = <<>> THEN <<>> ELSE ForCodesSep(c, 0, << <<>> >>, sep)

WordLibraryNew(word) ==
    [word |-> word, rank |-> 0, code_type |-> "Pinyin", codes |-> CodeNew,
     is_english |-> FALSE]

\* WordLibrary::has_code
has_code(wl) == ~is_empty(wl.codes)

\* WordLibrary::get_pinyin_string
get_pinyin_string(wl, sep) ==
    IF wl.code_type = "Pinyin" \/ wl.code_type = "TerraPinyin"
    THEN to_string_with_separator(wl.codes, sep)
    ELSE <<>>

(***************************************************************************)
(* QQPinyinExport (export/qq_pinyin.rs).                                   *)
(***************************************************************************)
\* the decimal digits of n >= 0
RECURSIVE DecimalDigits(_)
DecimalDigits(n) ==
    IF n < 10 THEN <<48 + n>>
    ELSE DecimalDigits(n \div 10) \o <<48 + (n % 10)>>

\* Display of an i32
fmt_i32(n) == IF n < 0 THEN <<45>> \o DecimalDigits(0 - n) ELSE DecimalDigits(n)

\* export_line: format!("{} {} {}", pinyin, word.word, word.rank)
export_line(word) ==
    IF word.code_type # "Pinyin"
    THEN Err(ErrorInvalidFormat("QQ Pinyin export requires Pinyin encoding"))
    ELSE IF get_pinyin_string(word, <<39>>) = <<>> THEN Ok(<<>>)
    ELSE Ok(get_pinyin_string(word, <<39>>) \o <<32>> \o word.word \o <<32>>
            \o fmt_i32(word.rank))

\* for word in &word_list[..word_list.len() - 1]
RECURSIVE ExportHead(_, _, _)
ExportHead(words, i, lines) ==
    IF i >= Len(words) THEN lines
    ELSE ExportHead(words, i + 1,
                    IF export_line(words[i]).kind = "Ok"
                       /\ export_line(words[i]).value # <<>>
                    THEN Append(lines, export_line(words[i]).value)
                    ELSE lines)

\* an export that drops a last Record that has no line, as it drops the
\* others
ExportLast_SwallowError(last, lines, r) ==
    IF r.kind = "Ok" /\ r.value # <<>>
    THEN Ok(<<join(Append(lines,
                          r.value \o <<44, 32>> \o get_pinyin_string(last, <<39>>)
                          \o <<32>> \o fmt_i32(last.rank)),
                   <<13, 10>>)>>)
    ELSE Ok(<<join(lines, <<13, 10>>)>>)

\* the last Record: self.export_line(last)?, the suffixed line, and
\* Ok(vec![lines.join("\r\n")])
ExportLast(last, lines, r) ==
    IF r.kind # "Ok" THEN r
    ELSE IF r.value # <<>>
    THEN Ok(<<join(Append(lines,
                          r.value \o <<44, 32>> \o get_pinyin_string(last, <<39>>)
                          \o <<32>> \o fmt_i32(last.rank)),
                   <<13, 10>>)>>)
    ELSE Ok(<<join(lines, <<13, 10>>)>>)

\* QQPinyinExport::export
export(words) ==
    IF words = <<>> THEN Ok(<< <<>> >>)
    ELSE ExportLast(words[Len(words)], ExportHead(words, 1, <<>>),
                    export_line(words[Len(words)]))

(***************************************************************************)
(* parse_pinyin_entry and one iteration of parse_pinyin_table.             *)
(***************************************************************************)
parse_pinyin_entry(d, s) ==
    LET r1 == le_u16(d, s)
    IN IF ~r1.ok THEN NomErr
       ELSE LET r2 == le_u16(d, r1.rest)
            IN IF ~r2.ok THEN NomErr
               ELSE LET byte_len == r2.val * 2
                        r3 == take(byte_len, r2.rest)
                    IN IF ~r3.ok THEN NomErr
                       ELSE [ok |-> TRUE, rest |-> r3.rest, index |-> r1.val,
                             pinyin |-> from_utf16_lossy(Units(d, r3.taken))]

\* an insert that keeps the text an index already has
TableInsert_KeepFirst(table, index, pinyin) ==
    [k \in DOMAIN table \cup {index} |->
        IF k \in DOMAIN table THEN table[k] ELSE pinyin]

\* table.insert(index, pinyin)
TableInsert(table, index, pinyin) ==
    [k \in DOMAIN table \cup {index} |-> IF k = index THEN pinyin ELSE table[k]]

\* a table loop that does not treat index 0 as the end of the table
TableIter_NoSentinel(d, table, off) ==
    IF ~(off < d.len - TableLoopMargin)
    THEN [continue |-> FALSE, table |-> table, offset |-> off]
    ELSE LET r == parse_pinyin_entry(d, Slice(off, d.len))
         IN IF ~r.ok
            THEN [continue |-> FALSE, table |-> table, offset |-> off]
            ELSE [continue |-> TRUE,
                  table |-> TableInsert(table, r.index, r.pinyin),
                  offset |-> off + 2 + 2 + encode_utf16_count(r.pinyin) * 2]

\* a table loop that gives up the table when a record does not fit
TableIter_DropOnTruncation(d, table, off) ==
    IF ~(off < d.len - TableLoopMargin)
    THEN [continue |-> FALSE, table |-> table, offset |-> off]
    ELSE LET r == parse_pinyin_entry(d, Slice(off, d.len))
         IN IF ~r.ok
            THEN [continue |-> FALSE, table |-> <<>>, offset |-> off]
            ELSE IF r.index = 0
            THEN [continue |-> FALSE, table |-> table, offset |-> off]
            ELSE [continue |-> TRUE,
                  table |-> TableInsert(table, r.index, r.pinyin),
                  offset |-> off + 2 + 2 + encode_utf16_count(r.pinyin) * 2]

\* One pass through the while loop of parse_pinyin_table (the loop test
\* included): continue = FALSE when the loop is left.
TableIter(d, table, off) ==
    IF ~(off < d.len - TableLoopMargin)
    THEN [continue |-> FALSE, table |-> table, offset |-> off]
    ELSE LET r == parse_pinyin_entry(d, Slice(off, d.len))
         IN IF ~r.ok
            THEN [continue |-> FALSE, table |-> table, offset |-> off]
            ELSE IF r.index = 0
            THEN [continue |-> FALSE, table |-> table, offset |-> off]
            ELSE LET pinyin_len == encode_utf16_count(r.pinyin)
                 IN [continue |-> TRUE,
                     table |-> TableInsert(table, r.index, r.pinyin),
                     offset |-> off + 2 + 2 + pinyin_len * 2]

(***************************************************************************)
(* parse_dict_entry.                                                       *)
(***************************************************************************)
\* an index loop that fails the entry on an index the table does not have
RECURSIVE ReadIndices_FailOnMissing(_, _, _, _, _)
ReadIndices_FailOnMissing(d, s, n, table, parts) ==
    IF n = 0 THEN [ok |-> TRUE, rest |-> s, parts |-> parts]
    ELSE LET r == le_u16(d, s)
         IN IF ~r.ok THEN NomErr
            ELSE IF r.val \notin DOMAIN table THEN NomErr
            ELSE ReadIndices_FailOnMissing(d, r.rest, n - 1, table,
                                           Append(parts, table[r.val]))

\* for _ in 0..pinyin_len: read an index, keep its pinyin when the table has it
RECURSIVE ReadIndices(_, _, _, _, _)
ReadIndices(d, s, n, table, parts) ==
    IF n = 0 THEN [ok |-> TRUE, rest |-> s, parts |-> parts]
    ELSE LET r == le_u16(d, s)
         IN IF ~r.ok THEN NomErr
            ELSE ReadIndices(d, r.rest, n - 1, table,
                             IF r.val \in DOMAIN table
                             THEN Append(parts, table[r.val])
                             ELSE parts)

\* for _ in 0..same_pinyin_count: word_len, word, ext_len, extension.
\* The loop body is split at each fallible read (the `?` of the source):
\* ReadWords reads word_len, WordText takes the word, WordExtLen reads
\* ext_len, WordExt skips the extension, WordPush pushes the word.
RECURSIVE ReadWords(_, _, _, _)
RECURSIVE WordText(_, _, _, _)
RECURSIVE WordExtLen(_, _, _, _)
RECURSIVE WordExt(_, _, _, _, _)
RECURSIVE WordPush(_, _, _, _, _)
ReadWords(d, s, n, words) ==
    IF n = 0 THEN [ok |-> TRUE, rest |-> s, words |-> words]
    ELSE WordText(d, le_u16(d, s), n, words)

WordText(d, r_len, n, words) ==
    IF ~r_len.ok THEN NomErr
    ELSE WordExtLen(d, take(r_len.val * 2, r_len.rest), n, words)

WordExtLen(d, r_word, n, words) ==
    IF ~r_word.ok THEN NomErr
    ELSE WordExt(d, le_u16(d, r_word.rest),
                 from_utf16_lossy(Units(d, r_word.taken)), n, words)

WordExt(d, r_ext_len, word, n, words) ==
    IF ~r_ext_len.ok THEN NomErr
    ELSE WordPush(d, take(r_ext_len.val * 2, r_ext_len.rest), word, n, words)

WordPush(d, r_ext, word, n, words) ==
    IF ~r_ext.ok THEN NomErr
    ELSE ReadWords(d, r_ext.rest, n - 1, Append(words, word))

NoEntry == [some |-> FALSE]

SomeEntry(wl) == [some |-> TRUE, wl |-> wl]

\* an entry tail that makes a Record with an empty word of a group without
\* variants
EntryResult_EmptyRecord(pinyin_parts, rw) ==
    IF ~rw.ok THEN NomErr
    ELSE [ok |-> TRUE, rest |-> rw.rest,
          entry |-> SomeEntry([WordLibraryNew(IF rw.words # <<>>
                                              THEN rw.words[1] ELSE <<>>) EXCEPT
                                  !.code_type = "Pinyin",
                                  !.codes = from_char_list(pinyin_parts)])]

\* an entry tail that keeps the last variant of the group
EntryResult_LastWord(pinyin_parts, rw) ==
    IF ~rw.ok THEN NomErr
    ELSE IF rw.words # <<>>
    THEN [ok |-> TRUE, rest |-> rw.rest,
          entry |-> SomeEntry([WordLibraryNew(rw.words[Len(rw.words)]) EXCEPT
                                  !.code_type = "Pinyin",
                                  !.codes = from_char_list(pinyin_parts)])]
    ELSE [ok |-> TRUE, rest |-> rw.rest, entry |-> NoEntry]

\* parse_dict_entry, split at each fallible read: EntryResult is the
\* tail of the function ("Return first word"), EntryWords the word loop,
\* EntryIndices the index loop, EntryPinyinLen the read of pinyin_len.
EntryResult(pinyin_parts, rw) ==
    IF ~rw.ok THEN NomErr
    ELSE IF rw.words # <<>>
    THEN [ok |-> TRUE, rest |-> rw.rest,
          entry |-> SomeEntry([WordLibraryNew(rw.words[1]) EXCEPT
                                  !.code_type = "Pinyin",
                                  !.codes = from_char_list(pinyin_parts)])]
    ELSE [ok |-> TRUE, rest |-> rw.rest, entry |-> NoEntry]

EntryWords(d, same_pinyin_count, ri) ==
    IF ~ri.ok THEN NomErr
    ELSE EntryResult(ri.parts, ReadWords(d, ri.rest, same_pinyin_count, <<>>))

EntryIndices(d, same_pinyin_count, r_len, table) ==
    IF ~r_len.ok THEN NomErr
    ELSE EntryWords(d, same_pinyin_count,
                    ReadIndices(d, r_len.rest, r_len.val, table, <<>>))

EntryPinyinLen(d, r_count, table) ==
    IF ~r_count.ok THEN NomErr
    ELSE EntryIndices(d, r_count.val, le_u16(d, r_count.rest), table)

parse_dict_entry(d, s, table) == EntryPinyinLen(d, le_u16(d, s), table)

(***************************************************************************)
(* One iteration of the while loop of parse_dictionary (the loop test and  *)
(* the safety limit included) on the slice data[start..] of length len.    *)
(* Offsets are relative to the slice, as in the source.                    *)
(***************************************************************************)
\* a loop without the safety limit
DictIterLimit_NoCap(ents, off) ==
    [state |-> "loop", entries |-> ents, offset |-> off]

\* if entries.len() >= 100000 { break; }
DictIterLimit(ents, off) ==
    [state |-> IF Len(ents) >= SafetyLimit THEN "return" ELSE "loop",
     entries |-> ents, offset |-> off]

\* a loop that retries a failed entry at the same offset
DictIterMatch_NoResync(ents, off, len, r) ==
    IF r.ok
    THEN DictIterLimit(IF r.entry.some THEN Append(ents, r.entry.wl) ELSE ents,
                       off + ((len - off) - SliceLen(r.rest)))
    ELSE DictIterLimit(ents, off)

\* a loop that keeps a Record without a word for an entry that failed
DictIterMatch_PartialRecord(ents, off, len, r) ==
    IF r.ok
    THEN DictIterLimit(IF r.entry.some THEN Append(ents, r.entry.wl) ELSE ents,
                       off + ((len - off) - SliceLen(r.rest)))
    ELSE DictIterLimit(Append(ents, WordLibraryNew(<<>>)), off + 1)

\* a loop that puts each new Record in front of the list
DictIterMatch_Prepend(ents, off, len, r) ==
    IF r.ok
    THEN DictIterLimit(IF r.entry.some THEN <<r.entry.wl>> \o ents ELSE ents,
                       off + ((len - off) - SliceLen(r.rest)))
    ELSE DictIterLimit(ents, off + 1)

\* match parse_dict_entry(..) { Ok(..) => push, advance; Err(_) => offset += 1 }
DictIterMatch(ents, off, len, r) ==
    IF r.ok
    THEN DictIterLimit(IF r.entry.some THEN Append(ents, r.entry.wl) ELSE ents,
                       off + ((len - off) - SliceLen(r.rest)))
    ELSE DictIterLimit(ents, off + 1)

DictIterBody(d, start, table, ents, off, len, bound, checks) ==
    IF bound.wrapped /\ checks
    THEN [state |-> "panic", entries |-> ents, offset |-> off,
          msg |-> "attempt to subtract with overflow"]
    ELSE IF ~usize_lt(off, bound)
    THEN [state |-> "return", entries |-> ents, offset |-> off]
    ELSE IF off > len
    THEN [state |-> "panic", entries |-> ents, offset |-> off,
          msg |-> "range start index out of range for slice"]
    ELSE DictIterMatch(ents, off, len,
                       parse_dict_entry(d, Slice(start + off, d.len), table))

DictIter(d, start, table, ents, off, checks) ==
    DictIterBody(d, start, table, ents, off, d.len - start,
                 usize_sub(d.len - start, DictLoopMargin), checks)

(***************************************************************************)
(* Input buffers.  The bytes after the header are concatenations of at     *)
(* most MaxFrags fragments: pinyin-table records, dictionary entries,      *)
(* padding and stray bytes.                                                *)
(***************************************************************************)
\* pinyin-table record (index = 1, length = 2, "ni")
PyNi == <<1, 0, 2, 0, 110, 0, 105, 0>>

\* dictionary entry (same_pinyin_count = 1, pinyin_len = 1, indices = [1],
\* word_len = 1, word U+4F60, ext_len = 0)
DictNi == <<1, 0, 1, 0, 1, 0, 1, 0, 96, 79, 0, 0>>

\* dictionary entry (same_pinyin_count = 1, pinyin_len = 0, word_len = 0,
\* ext_len = 0)
DictEmptyWord == <<1, 0, 0, 0, 0, 0, 0, 0>>

\* the locator's pattern, as an entry (same_pinyin_count = 0,
\* pinyin_len = 1, indices = [0])
Marker == <<0, 0, 1, 0, 0, 0>>

Pad16 == <<0, 0, 0, 0, 0, 0, 0, 0, 0, 0, 0, 0, 0, 0, 0, 0>>

\* a record head (2, 9): as a table record it needs 18 more bytes
Trunc == <<2, 0, 9, 0>>

\* three bytes that no alignment decodes as an entry or a record of a
\* short buffer; after two zero bytes they complete the locator's pattern
Junk == <<255, 0, 255>>

Fragments == {PyNi, DictNi, DictEmptyWord, Marker, Pad16, Trunc, Junk}

RECURSIVE TailsOf(_)
TailsOf(n) ==
    IF n = 0 THEN {<<>>}
    ELSE LET prev == TailsOf(n - 1)
         IN prev \cup {t \o f : t \in prev, f \in Fragments}

Tails == TailsOf(MaxFrags)

SmallTails ==
    {<<>>, Junk, Marker \o DictEmptyWord \o Pad16, Marker \o Marker}

\* the magic with one byte changed
MagicVariants == {[Magic EXCEPT ![k] = Magic[k] + 1] : k \in 1..MagicLen}

\* leading bytes of a string region: empty, "T", a lone high surrogate,
\* a surrogate pair (U+1F600), "T" then a terminator then "X"
RegionTexts ==
    {<<>>, <<84, 0>>, <<0, 216>>, <<61, 216, 0, 222>>, <<84, 0, 0, 0, 88, 0>>}

DefaultHeader ==
    [magic |-> Magic, wc |-> <<0, 0, 0, 0>>, name |-> <<84, 0>>,
     category |-> <<>>, description |-> <<>>, example |-> <<>>]

Headers ==
    [magic : {Magic}, wc : {<<0, 0, 0, 0>>, <<1, 2, 0, 0>>},
     name : RegionTexts, category : {<<>>, <<84, 0>>},
     description : {<<>>, <<84, 0>>}, example : RegionTexts]
    \cup {[DefaultHeader EXCEPT !.magic = m] : m \in MagicVariants}

MkBuffer(h, len, tail) ==
    [len |-> len, magic |-> h.magic, wc |-> h.wc, name |-> h.name,
     category |-> h.category, description |-> h.description,
     example |-> h.example, tail |-> tail]

ShortLens == {0, MagicLen - 1, HeaderSize - 1}

InputBuffers ==
    {MkBuffer(DefaultHeader, HeaderSize + Len(t), t) : t \in Tails}
    \cup {MkBuffer(h, HeaderSize + Len(t), t) : h \in Headers, t \in SmallTails}
    \cup {MkBuffer([DefaultHeader EXCEPT !.magic = m], n, <<>>) :
             m \in {Magic} \cup MagicVariants, n \in ShortLens}

(***************************************************************************)
(* Input buffers of EntrySpec: a pinyin table (empty, or "ni" and "hao"),  *)
(* the marker, at most MaxEntries dictionary entries or stray bytes, and   *)
(* an optional padding that keeps the last entry inside the range of the   *)
(* decoding loop.                                                          *)
(***************************************************************************)
\* pinyin-table record (index = 2, length = 3, "hao")
PyHao == <<2, 0, 3, 0, 104, 0, 97, 0, 111, 0>>

\* dictionary entry (same_pinyin_count = 2, pinyin_len = 2,
\* indices = [2, 1], word U+597D with ext_len = 0, word "X" with
\* ext_len = 1 and extension bytes 9, 9)
DictTwoWords ==
    <<2, 0, 2, 0, 2, 0, 1, 0, 1, 0, 125, 89, 0, 0, 1, 0, 88, 0, 1, 0, 9, 9>>

\* dictionary entry (same_pinyin_count = 1, pinyin_len = 2,
\* indices = [1, 7], word "X", ext_len = 0); no table of the model has an
\* index 7
DictMissing == <<1, 0, 2, 0, 1, 0, 7, 0, 1, 0, 88, 0, 0, 0>>

EntryFrags == {DictNi, DictTwoWords, DictMissing, Marker, Junk}

RECURSIVE EntrySeqs(_)
EntrySeqs(n) ==
    IF n = 0 THEN {<<>>}
    ELSE LET prev == EntrySeqs(n - 1)
         IN prev \cup {t \o f : t \in prev, f \in EntryFrags}

EntryTails ==
    {tbl \o Marker \o body \o pad :
        tbl \in {<<>>, PyNi \o PyHao}, body \in EntrySeqs(MaxEntries),
        pad \in {<<>>, Pad16}}

EntryBuffers ==
    {MkBuffer(DefaultHeader, HeaderSize + Len(t), t) : t \in EntryTails}

(***************************************************************************)
(* Input buffers of TableSpec: at most MaxRecords pinyin-table records,    *)
(* followed by nothing or by the marker and a padding.                     *)
(***************************************************************************)
\* pinyin-table record (index = 3, length = 0)
PyZero == <<3, 0, 0, 0>>

\* pinyin-table record (index = 4, length = 1, the unpaired surrogate
\* U+D800)
PyLone == <<4, 0, 1, 0, 0, 216>>

\* pinyin-table record (index = 5, length = 2, the surrogate pair of
\* U+1F600)
PyPair == <<5, 0, 2, 0, 61, 216, 0, 222>>

TableFrags == {PyNi, PyZero, PyLone, PyPair, Trunc}

RECURSIVE TableSeqs(_)
TableSeqs(n) ==
    IF n = 0 THEN {<<>>}
    ELSE LET prev == TableSeqs(n - 1)
         IN prev \cup {t \o f : t \in prev, f \in TableFrags}

TableTails ==
    {recs \o end : recs \in TableSeqs(MaxRecords),
                   end \in {<<>>, Marker \o Pad16}}

TableBuffers ==
    {MkBuffer(DefaultHeader, HeaderSize + Len(t), t) : t \in TableTails}

\* no method of Code and no exporter is called
NoCall ==
    /\ self_code = <<>>
    /\ separator = <<>>
    /\ word_list = <<>>
    /\ call = "none"
    /\ ret = NoResult

(***************************************************************************)
(* State machine: one buffer, on which the metadata entry point            *)
(* (read_info) or the full decode (import_from_file) runs.                 *)
(***************************************************************************)
Init ==
    /\ data \in InputBuffers
    /\ overflow_checks \in BOOLEAN
    /\ pc = "idle"
    /\ offset = 0
    /\ pinyin_table = <<>>
    /\ dict_start = 0
    /\ entries = <<>>
    /\ result = NoResult
    /\ info = NoResult
    /\ starts = <<>>
    /\ NoCall

\* SogouScelImport::read_info on the buffered file
ReadInfo ==
    /\ pc \in {"idle", "info_done"}
    /\ info' = parse_scel_info(data)
    /\ pc' = "info_done"
    /\ UNCHANGED <<data, overflow_checks, offset, pinyin_table, dict_start,
                   entries, result, starts>>
    /\ UNCHANGED lib_vars

\* parse_scel_file up to the call of parse_pinyin_table
ImportStart ==
    /\ pc = "idle"
    /\ IF data.len < HeaderSize
       THEN /\ result' = Err(ErrorParse("File too small to be valid SCEL"))
            /\ pc' = "done"
            /\ UNCHANGED offset
       ELSE /\ offset' = HeaderSize
            /\ pc' = "table"
            /\ UNCHANGED result
    /\ UNCHANGED <<data, overflow_checks, pinyin_table, dict_start, entries,
                   info, starts>>
    /\ UNCHANGED lib_vars

\* one iteration of the loop of parse_pinyin_table
TableStep ==
    /\ pc = "table"
    /\ LET it == TableIter(data, pinyin_table, offset)
       IN /\ pinyin_table' = it.table
          /\ offset' = it.offset
          /\ pc' = IF it.continue THEN "table" ELSE "locate"
    /\ UNCHANGED <<data, overflow_checks, dict_start, entries, result, info,
                   starts>>
    /\ UNCHANGED lib_vars

\* parse_scel_file: find_dict_start and the entry into parse_dictionary
Locate ==
    /\ pc = "locate"
    /\ LET r == find_dict_start(data)
       IN IF r.kind = "Ok"
          THEN /\ dict_start' = r.value
               /\ offset' = 0
               /\ pc' = "dict"
               /\ UNCHANGED result
          ELSE /\ result' = r
               /\ pc' = "done"
               /\ UNCHANGED <<dict_start, offset>>
    /\ UNCHANGED <<data, overflow_checks, pinyin_table, entries, info, starts>>
    /\ UNCHANGED lib_vars

\* one iteration of the loop of parse_dictionary
DictStep ==
    /\ pc = "dict"
    /\ LET it == DictIter(data, dict_start, pinyin_table, entries, offset,
                          overflow_checks)
       IN /\ entries' = it.entries
          /\ starts' = IF Len(it.entries) > Len(entries)
                       THEN Append(starts, offset) ELSE starts
          /\ offset' = it.offset
          /\ IF it.state = "loop"
             THEN pc' = "dict" /\ UNCHANGED result
             ELSE /\ pc' = "done"
                  /\ result' = IF it.state = "panic" THEN Panic(it.msg)
                               ELSE Ok(it.entries)
    /\ UNCHANGED <<data, overflow_checks, pinyin_table, dict_start, info>>
    /\ UNCHANGED lib_vars

Next == ReadInfo \/ ImportStart \/ TableStep \/ Locate \/ DictStep

Spec == Init /\ [][Next]_vars

\* the same program on the buffers of EntryBuffers
EntryInit ==
    /\ data \in EntryBuffers
    /\ overflow_checks \in BOOLEAN
    /\ pc = "idle"
    /\ offset = 0
    /\ pinyin_table = <<>>
    /\ dict_start = 0
    /\ entries = <<>>
    /\ result = NoResult
    /\ info = NoResult
    /\ starts = <<>>
    /\ NoCall

EntrySpec == EntryInit /\ [][Next]_vars

\* the same program on the buffers of TableBuffers
TableInit ==
    /\ data \in TableBuffers
    /\ overflow_checks \in BOOLEAN
    /\ pc = "idle"
    /\ offset = 0
    /\ pinyin_table = <<>>
    /\ dict_start = 0
    /\ entries = <<>>
    /\ result = NoResult
    /\ info = NoResult
    /\ starts = <<>>
    /\ NoCall

TableSpec == TableInit /\ [][Next]_vars

(***************************************************************************)
(* CodeSpec: the methods of Code (data.rs) applied to a Code of at most    *)
(* MaxPositions positions.                                                 *)
(***************************************************************************)
\* the candidate lists of a position: none, "", "a", "a" and "b", "c" and
\* "d", "c"
PositionValues ==
    {<<>>, << <<>> >>, << <<97>> >>, << <<97>>, <<98>> >>,
     << <<99>>, <<100>> >>, << <<99>> >>}

RECURSIVE CodesOf(_)
CodesOf(n) ==
    IF n = 0 THEN {<<>>}
    ELSE LET prev == CodesOf(n - 1)
         IN prev \cup {c \o <<p>> : c \in prev, p \in PositionValues}

\* "'" and ", "
Separators == {<<39>>, <<44, 32>>}

\* the decoder at rest
NoDecode ==
    /\ data = MkBuffer(DefaultHeader, 0, <<>>)
    /\ overflow_checks = FALSE
    /\ pc = "idle"
    /\ offset = 0
    /\ pinyin_table = <<>>
    /\ dict_start = 0
    /\ entries = <<>>
    /\ result = NoResult
    /\ info = NoResult
    /\ starts = <<>>

CodeInit ==
    /\ NoDecode
    /\ self_code \in CodesOf(MaxPositions)
    /\ separator \in Separators
    /\ word_list = <<>>
    /\ call = "none"
    /\ ret = NoResult

\* code.is_empty()
CallIsEmpty ==
    /\ call = "none"
    /\ call' = "is_empty"
    /\ ret' = is_empty(self_code)
    /\ UNCHANGED <<self_code, separator, word_list>>
    /\ UNCHANGED scel_vars

\* has_code() of a Record with these codes
CallHasCode ==
    /\ call = "none"
    /\ call' = "has_code"
    /\ ret' = has_code([WordLibraryNew(<<>>) EXCEPT !.codes = self_code])
    /\ UNCHANGED <<self_code, separator, word_list>>
    /\ UNCHANGED scel_vars

\* code.to_string_with_separator(separator)
CallToStringWithSeparator ==
    /\ call = "none"
    /\ call' = "to_string_with_separator"
    /\ ret' = to_string_with_separator(self_code, separator)
    /\ UNCHANGED <<self_code, separator, word_list>>
    /\ UNCHANGED scel_vars

\* code.cartesian_product()
CallCartesianProduct ==
    /\ call = "none"
    /\ call' = "cartesian_product"
    /\ ret' = cartesian_product(self_code)
    /\ UNCHANGED <<self_code, separator, word_list>>
    /\ UNCHANGED scel_vars

\* code.cartesian_product_with_separator(separator)
CallCartesianProductWithSeparator ==
    /\ call = "none"
    /\ call' = "cartesian_product_with_separator"
    /\ ret' = cartesian_product_with_separator(self_code, separator)
    /\ UNCHANGED <<self_code, separator, word_list>>
    /\ UNCHANGED scel_vars

CodeNext ==
    \/ CallIsEmpty
    \/ CallHasCode
    \/ CallToStringWithSeparator
    \/ CallCartesianProduct
    \/ CallCartesianProductWithSeparator

CodeSpec == CodeInit /\ [][CodeNext]_vars

(***************************************************************************)
(* ExportSpec: QQPinyinExport::export applied to a list of at most         *)
(* MaxWords Records.                                                       *)
(***************************************************************************)
\* U+4F60 U+597D, rank 1000, pinyin, ni hao
RecNiHao ==
    [WordLibraryNew(<<20320, 22909>>) EXCEPT
        !.rank = 1000,
        !.codes = from_char_list(<< <<110, 105>>, <<104, 97, 111>> >>)]

\* U+4E16 U+754C, rank 500, pinyin, shi jie
RecShiJie ==
    [WordLibraryNew(<<19990, 30028>>) EXCEPT
        !.rank = 500,
        !.codes = from_char_list(<< <<115, 104, 105>>, <<106, 105, 101>> >>)]

\* "X", rank 0, pinyin, a Code without positions
RecNoCode == WordLibraryNew(<<88>>)

\* U+4F60, rank 0, Wubi, wq
RecWubi ==
    [WordLibraryNew(<<20320>>) EXCEPT
        !.code_type = "Wubi",
        !.codes = from_char_list(<< <<119, 113>> >>)]

\* U+4F60, rank 0, TerraPinyin, ni
RecTerra ==
    [WordLibraryNew(<<20320>>) EXCEPT
        !.code_type = "TerraPinyin",
        !.codes = from_char_list(<< <<110, 105>> >>)]

Records == {RecNiHao, RecShiJie, RecNoCode, RecWubi, RecTerra}

RECURSIVE ListsOf(_)
ListsOf(n) ==
    IF n = 0 THEN {<<>>}
    ELSE LET prev == ListsOf(n - 1)
         IN prev \cup {l \o <<w>> : l \in prev, w \in Records}

ExportInit ==
    /\ NoDecode
    /\ self_code = <<>>
    /\ separator = <<>>
    /\ word_list \in ListsOf(MaxWords)
    /\ call = "none"
    /\ ret = NoResult

\* exporter.export(&word_list)
CallExport ==
    /\ call = "none"
    /\ call' = "export"
    /\ ret' = export(word_list)
    /\ UNCHANGED <<self_code, separator, word_list>>
    /\ UNCHANGED scel_vars

ExportNext == CallExport

ExportSpec == ExportInit /\ [][ExportNext]_vars

(***************************************************************************)
(* Properties.                                                             *)
(***************************************************************************)
\* the slice parse_dictionary works on, and what is left of it at the cursor
DictLen == data.len - dict_start

AtCursor == Slice(dict_start + offset, data.len)

EntryAtCursor == parse_dict_entry(data, AtCursor, pinyin_table)

\* C1: for every buffer the full decode ends with a Record list or an error
\* value; it never panics (no read outside the buffer, no usize subtraction
\* below zero).
C1_NeverCrashes == result.kind # "Panic"

\* the iteration the loop of parse_dictionary takes from the current state
IterAtCursor ==
    DictIter(data, dict_start, pinyin_table, entries, offset, overflow_checks)

\* C2: the entry-decoding loop terminates on every dictionary section: in
\* every state of the loop the cursor is bounded by the section, and the
\* iteration taken there either leaves the loop or strictly advances the
\* cursor: by the bytes consumed (at least 4) when the entry decodes, by
\* exactly one when it fails.
C2_LoopTerminates ==
    pc = "dict" =>
        /\ offset <= DictLen + 1
        /\ IterAtCursor.state = "loop" =>
               /\ IterAtCursor.offset > offset
               /\ EntryAtCursor.ok =>
                      /\ IterAtCursor.offset - offset >= 4
                      /\ IterAtCursor.offset - offset
                            = SliceLen(AtCursor) - SliceLen(EntryAtCursor.rest)
               /\ ~EntryAtCursor.ok => IterAtCursor.offset = offset + 1

\* C2 witness: the loop was left normally, without a Record, on a section
\* whose first five attempts (offsets 0..4) all failed and were resynced.
C2_Witness ==
    /\ pc = "done"
    /\ result = Ok(<<>>)
    /\ dict_start >= HeaderSize
    /\ offset >= 5
    /\ \A o \in 0..4 :
          ~parse_dict_entry(data, Slice(dict_start + o, data.len), pinyin_table).ok

\* C3: the number of accepted Records never exceeds the safety cap, during
\* decoding and in the returned list, and decoding stops as soon as the
\* count reaches the cap.
C3_CapRespected ==
    /\ Len(entries) <= SafetyLimit
    /\ (pc = "dict" => Len(entries) < SafetyLimit)
    /\ (result.kind = "Ok" => Len(result.value) <= SafetyLimit)

\* C3 witness: decoding returned with exactly the cap while another entry
\* was decodable at the cursor, inside the loop's range.
C3_Witness ==
    /\ pc = "done"
    /\ result.kind = "Ok"
    /\ Len(result.value) = SafetyLimit
    /\ offset < DictLen - DictLoopMargin
    /\ EntryAtCursor.ok
    /\ EntryAtCursor.entry.some

\* the buffer of the round-trip construction: a valid header, the table
\* record (1, "ni"), the entry (1, 1, [1], U+4F60, ext_len 0)
IsRoundTripBuffer ==
    /\ data.len = HeaderSize + Len(PyNi) + Len(DictNi)
    /\ data.magic = Magic
    /\ data.tail = PyNi \o DictNi

\* C4: decoding the round-trip buffer succeeds with exactly one Record: word
\* U+4F60, code kind pinyin, default code string "ni".
C4_RoundTrip ==
    (pc = "done" /\ IsRoundTripBuffer) =>
        /\ result.kind = "Ok"
        /\ Len(result.value) = 1
        /\ result.value[1].word = <<20320>>
        /\ result.value[1].code_type = "Pinyin"
        /\ to_string_with_separator(result.value[1].codes, <<>>) = <<110, 105>>

\* C5: the full decode returns an error, and no Records, for every buffer
\* whose first 12 bytes differ from the magic (stated for the decodes that
\* return).
C5_BadMagicRejected ==
    (pc = "done" /\ data.magic # Magic /\ result.kind # "Panic") =>
        /\ result.kind = "Err"
        /\ entries = <<>>

\* C6: parse_scel_info succeeds exactly when the buffer has at least
\* HeaderSize bytes and its first 12 bytes are the magic, whatever the string
\* regions hold.
C6_InfoOkIffValidHeader ==
    pc = "info_done" =>
        /\ info.kind \in {"Ok", "Err"}
        /\ info.kind = "Ok" <=> (data.len >= HeaderSize /\ data.magic = Magic)

\* C6 witness: a valid header whose name region starts with an unpaired
\* surrogate was read, with the replacement character in the name.
C6_Witness ==
    /\ pc = "info_done"
    /\ data.name = <<0, 216>>
    /\ info.kind = "Ok"
    /\ info.value.name = <<65533>>

\* C7: a header rejection (short buffer, wrong magic) carries the
\* format-mismatch error kind, which differs from the kind of the locator's
\* failure.
C7_FormatMismatchKind ==
    /\ (pc = "info_done" /\ info.kind = "Err") =>
           info.error.variant = "FormatMismatch"
    /\ (pc = "done" /\ data.len < HeaderSize) =>
           /\ result.kind = "Err"
           /\ result.error.variant = "FormatMismatch"
    /\ (pc = "done" /\ data.len >= HeaderSize /\ result.kind = "Err") =>
           result.error.variant # "FormatMismatch"

\* the buffer with the same first HeaderSize bytes and other bytes after them
WithTail(d, t) == [d EXCEPT !.tail = t, !.len = HeaderSize + Len(t)]

\* C8: the metadata depends on the header region only: every buffer with the
\* same first HeaderSize bytes gives the result read from this one, whether
\* or not it has a pinyin table or a locatable dictionary section, and a
\* second call on the same buffer gives the same result.
C8_InfoDependsOnHeaderOnly ==
    (pc = "info_done" /\ data.len >= HeaderSize) =>
        /\ \A t \in SmallTails : parse_scel_info(WithTail(data, t)) = info
        /\ parse_scel_info(data) = info

\* C8 witness: metadata was read from a buffer on which the locator fails
\* and that shares its header with a buffer that decodes.
C8_Witness ==
    /\ pc = "info_done"
    /\ info.kind = "Ok"
    /\ find_dict_start(data).kind = "Err"
    /\ \E t \in SmallTails : find_dict_start(WithTail(data, t)).kind = "Ok"

\* the cursor of the table parser is at a record whose index field is zero
ZeroIndexAtCursor ==
    /\ pc = "table"
    /\ data.len - offset >= 4
    /\ U16At(data, offset) = 0

\* C9: a table record with index 0 ends table parsing at that record: the
\* table is the one built from the records before it, and nothing at or
\* after it is inserted.
C9_ZeroIndexEndsTable ==
    [][/\ ZeroIndexAtCursor => (pc' = "locate" /\ pinyin_table' = pinyin_table)
       /\ pc \notin {"idle", "table"} => pinyin_table' = pinyin_table]_vars

\* C9 witness: parsing stopped at a zero-index record inside the loop's
\* range, with a record in the table and a well-formed nonzero record
\* further on in the buffer.
C9_Witness ==
    /\ pc = "locate"
    /\ offset < data.len - TableLoopMargin
    /\ U16At(data, offset) = 0
    /\ DOMAIN pinyin_table # {}
    /\ \E o \in (offset + 4)..(data.len - 5) :
          /\ parse_pinyin_entry(data, Slice(o, data.len)).ok
          /\ parse_pinyin_entry(data, Slice(o, data.len)).index # 0

\* fewer than 4 + 2*length bytes remain at the table cursor
TruncatedAtCursor ==
    \/ data.len - offset < 4
    \/ data.len - offset < 4 + 2 * U16At(data, offset + 2)

\* C10: when the buffer ends in the middle of a table record, table parsing
\* ends without an error and the table keeps every record inserted before.
C10_TruncationKeepsTable ==
    [][(pc = "table" /\ TruncatedAtCursor) =>
          /\ pc' = "locate"
          /\ pinyin_table' = pinyin_table
          /\ result' = NoResult]_vars

\* C10 witness: parsing stopped at a record with a nonzero index whose text
\* runs past the buffer end, with a record in the table.
C10_Witness ==
    /\ pc = "locate"
    /\ offset < data.len - TableLoopMargin
    /\ U16At(data, offset) # 0
    /\ data.len - offset < 4 + 2 * U16At(data, offset + 2)
    /\ DOMAIN pinyin_table # {}

\* the locator returned a start offset (dict_start is 0 until it does)
Located == dict_start >= HeaderSize

\* C11: once the length check of the header has passed and the locator has
\* returned a start offset, the full decode ends with success (a possibly
\* empty Record list), whatever the table and the dictionary section hold.
C11_AnomaliesNotSurfaced ==
    (pc = "done" /\ data.len >= HeaderSize /\ Located) => result.kind = "Ok"

\* the loop of parse_dictionary runs its body on the entry at the cursor
\* (every run of the body moves the cursor; a panic or a failed loop test
\* leaves it)
BodyRuns == pc = "dict" /\ IterAtCursor.offset # offset

\* the fields of the entry at the cursor, read from the buffer
EntryBase == dict_start + offset

RawCount == U16At(data, EntryBase)

RawPinyinLen == U16At(data, EntryBase + 2)

RawIndices == [k \in 1..RawPinyinLen |-> U16At(data, EntryBase + 2 + 2 * k)]

RawWordsAt == EntryBase + 4 + 2 * RawPinyinLen

\* the text of the word variant whose word_len field is at pos
RawWord(pos) ==
    from_utf16_lossy(Units(data, Slice(pos + 2, pos + 2 + 2 * U16At(data, pos))))

\* the offset after n word variants (word_len, text, ext_len, extension)
\* the first of which starts at pos
RECURSIVE RawVariantsEnd(_, _)
RawVariantsEnd(pos, n) ==
    IF n = 0 THEN pos
    ELSE RawVariantsEnd(pos + 2 + 2 * U16At(data, pos) + 2
                          + 2 * U16At(data, pos + 2 + 2 * U16At(data, pos)),
                        n - 1)

\* the Record the iteration at the cursor appends
NewRecord == IterAtCursor.entries[Len(IterAtCursor.entries)]

\* C12 (as stated): every entry that decodes adds exactly one Record, for
\* every same_pinyin_count, 0 included.
C12_OneRecordPerEntry ==
    (BodyRuns /\ EntryAtCursor.ok) =>
        Len(IterAtCursor.entries) = Len(entries) + 1

\* C12 (amended): an entry that decodes with same_pinyin_count >= 1 adds
\* exactly one Record, at the end of the list; an entry that decodes with
\* same_pinyin_count = 0 adds none and only moves the cursor.
C12_OneRecordPerNonEmptyGroup ==
    (BodyRuns /\ EntryAtCursor.ok) =>
        /\ RawCount >= 1 =>
               /\ Len(IterAtCursor.entries) = Len(entries) + 1
               /\ SubSeq(IterAtCursor.entries, 1, Len(entries)) = entries
        /\ RawCount = 0 =>
               /\ IterAtCursor.entries = entries
               /\ IterAtCursor.offset = offset + 4 + 2 * RawPinyinLen

\* the entry at offset 0 of the section, and the bytes it consumed
FirstEntry ==
    parse_dict_entry(data, Slice(dict_start, data.len), pinyin_table)

FirstConsumed == (data.len - dict_start) - SliceLen(FirstEntry.rest)

\* C12 witness: the loop has decoded the entry at offset 0, a group without
\* variants, and stands behind it with an empty Record list.
C12_Witness ==
    /\ pc = "dict"
    /\ entries = <<>>
    /\ offset > 0
    /\ FirstEntry.ok
    /\ offset = FirstConsumed
    /\ U16At(data, dict_start) = 0

\* C13: an entry that decodes with same_pinyin_count >= 1 adds one Record
\* whose word is the first variant read, whose code kind is pinyin and
\* whose rank is 0; the later variants are consumed (the cursor moves
\* behind the last of them) and add nothing.
C13_FirstVariantOnly ==
    (BodyRuns /\ EntryAtCursor.ok /\ RawCount >= 1) =>
        /\ Len(IterAtCursor.entries) = Len(entries) + 1
        /\ NewRecord.word = RawWord(RawWordsAt)
        /\ NewRecord.code_type = "Pinyin"
        /\ NewRecord.rank = 0
        /\ dict_start + IterAtCursor.offset = RawVariantsEnd(RawWordsAt, RawCount)

\* C13 witness: the loop has decoded a group of two variants with
\* different words right behind the first entry; the Record list holds the
\* first variant only and the cursor is behind the second.
C13_Witness ==
    /\ Located
    /\ FirstEntry.ok
    /\ ~FirstEntry.entry.some
    /\ dict_start + FirstConsumed + Len(DictTwoWords) <= data.len
    /\ U16At(data, dict_start + FirstConsumed) = 2
    /\ Len(entries) = 1
    /\ starts = <<FirstConsumed>>
    /\ entries[1].word = <<22909>>
    /\ offset = FirstConsumed + Len(DictTwoWords)
    /\ RawWord(dict_start + FirstConsumed + 8 + 6) = <<88>>

\* the code the entry at the cursor stands for: one single-candidate
\* position for each of its indices the table has, in the order read
ExpectedCodes ==
    LET present == SelectSeq(RawIndices, LAMBDA i : i \in DOMAIN pinyin_table)
    IN [k \in 1..Len(present) |-> <<pinyin_table[present[k]]>>]

\* the entry at the cursor lies inside the buffer, field by field
RECURSIVE VariantsFit(_, _)
VariantsFit(pos, n) ==
    \/ n = 0
    \/ /\ pos + 2 <= data.len
       /\ pos + 2 + 2 * U16At(data, pos) + 2 <= data.len
       /\ RawVariantsEnd(pos, 1) <= data.len
       /\ VariantsFit(RawVariantsEnd(pos, 1), n - 1)

EntryFits ==
    /\ EntryBase + 4 <= data.len
    /\ RawWordsAt <= data.len
    /\ VariantsFit(RawWordsAt, RawCount)

\* C14: the code of the Record of an entry is one single-candidate position
\* per index of the entry that the table has, in the order read; an index
\* the table does not have adds no position and does not fail the entry,
\* so the code has between 0 and pinyin_len positions.
C14_CodeFromPresentIndices ==
    (BodyRuns /\ EntryFits /\ RawCount >= 1) =>
        /\ EntryAtCursor.ok
        /\ Len(IterAtCursor.entries) = Len(entries) + 1
        /\ NewRecord.codes = ExpectedCodes
        /\ Len(NewRecord.codes) <= RawPinyinLen
        /\ \A k \in 1..Len(NewRecord.codes) : Len(NewRecord.codes[k]) = 1

\* C14 witness: the Record list holds the Record of an entry with the
\* indices [1, 7] decoded against a table that has 1 -> "ni" and no 7:
\* its code is the one position "ni".
C14_Witness ==
    /\ Located
    /\ 1 \in DOMAIN pinyin_table
    /\ 7 \notin DOMAIN pinyin_table
    /\ Len(entries) >= 1
    /\ U16At(data, dict_start + starts[1] + 2) = 2
    /\ U16At(data, dict_start + starts[1] + 4) = 1
    /\ U16At(data, dict_start + starts[1] + 6) = 7
    /\ entries[1].codes = <<<<pinyin_table[1]>>>>

\* C15: when the decode of the entry at cursor p fails, the cursor moves to
\* exactly p + 1 and the Record list is left as it was.
C15_ResyncByOne ==
    (BodyRuns /\ ~EntryAtCursor.ok) =>
        /\ IterAtCursor.offset = offset + 1
        /\ IterAtCursor.entries = entries
        /\ IterAtCursor.state = "loop"

\* C15 witness: the decode at offset 0 of the section failed; the loop
\* stands at offset 1 with an empty Record list.
C15_Witness ==
    /\ pc = "dict"
    /\ offset = 1
    /\ entries = <<>>
    /\ ~FirstEntry.ok

\* C16: decoding goes on until the buffer is exhausted or the cap is
\* reached: when it returns below the cap, no entry that decodes to a
\* Record is left at the cursor.
C16_DecodesUntilExhausted ==
    (/\ pc = "done"
     /\ Located
     /\ result.kind = "Ok"
     /\ Len(entries) < SafetyLimit
     /\ offset <= DictLen) =>
        ~(EntryAtCursor.ok /\ EntryAtCursor.entry.some)

\* the Record of the entry that starts at offset o of the section
RecordAt(o) ==
    parse_dict_entry(data, Slice(dict_start + o, data.len), pinyin_table).entry.wl

\* C17: the Record list is in file order: Record i is the Record of the
\* entry at starts[i], the start offsets strictly increase along the list,
\* and each decoded Record is appended at the end of the list whether or
\* not the list already holds an equal one.
C17_FileOrder ==
    /\ Len(starts) = Len(entries)
    /\ \A i \in 1..Len(entries) : \A j \in 1..Len(entries) :
          i < j => starts[i] < starts[j]
    /\ \A i \in 1..Len(entries) : entries[i] = RecordAt(starts[i])
    /\ (BodyRuns /\ EntryAtCursor.ok /\ EntryAtCursor.entry.some) =>
          IterAtCursor.entries = Append(entries, EntryAtCursor.entry.wl)
    /\ (result.kind = "Ok" => result.value = entries)

\* C17 witness: decoding returned two Records of entries at different
\* offsets whose words differ, the earlier entry first.
C17_Witness ==
    /\ pc = "done"
    /\ result.kind = "Ok"
    /\ Len(result.value) = 2
    /\ result.value[1].word # result.value[2].word
    /\ starts[1] < starts[2]

\* data[j..j+4] is [0x00, 0x00, nonzero, 0x00]
WindowAt(j) ==
    /\ ByteAt(data, j) = 0
    /\ ByteAt(data, j + 1) = 0
    /\ ByteAt(data, j + 2) > 0
    /\ ByteAt(data, j + 3) = 0

\* C18: a start offset returned by the locator is at least 0x1540, the four
\* bytes there are [0x00, 0x00, nonzero, 0x00], and no offset between
\* 0x1540 and it has such a window.
C18_FirstMatch ==
    Located =>
        /\ dict_start + 4 <= data.len
        /\ WindowAt(dict_start)
        /\ \A j \in HeaderSize..(dict_start - 1) : ~WindowAt(j)

\* C18 witness: the locator returned an offset behind 0x1540 on a buffer
\* that has another window further on.
C18_Witness ==
    /\ pc = "dict"
    /\ dict_start > HeaderSize
    /\ \E j \in (dict_start + 1)..(data.len - 4) : WindowAt(j)

\* C19: the locator fails only when no window [0x00, 0x00, nonzero, 0x00]
\* that starts at or after 0x1540 lies inside the buffer.
C19_FailsOnlyWithoutWindow ==
    (pc = "done" /\ result = Err(ErrorParse("Could not find dictionary start"))) =>
        \A j \in HeaderSize..(data.len - 4) : ~WindowAt(j)

\* the table records (index, text) that lie from pos up to end, each
\* 4 + 2 * length bytes long
RECURSIVE RecordsRead(_, _)
RecordsRead(pos, end) ==
    IF pos >= end THEN <<>>
    ELSE <<[index |-> U16At(data, pos), text |-> RawWord(pos + 2)]>>
         \o RecordsRead(pos + 4 + 2 * U16At(data, pos + 2), end)

\* recs[i] is the last record of recs with its index
LastOfIndex(recs, i) ==
    \A j \in (i + 1)..Len(recs) : recs[j].index # recs[i].index

\* the table the records read so far stand for: one entry per distinct
\* index, with the text of the last record that has the index
TableOf(recs) ==
    [k \in {recs[i].index : i \in 1..Len(recs)} |->
        recs[CHOOSE i \in 1..Len(recs) :
                recs[i].index = k /\ LastOfIndex(recs, i)].text]

\* C20: the table has one entry per distinct index read, and when an index
\* was read more than once its text is that of the last record read.
C20_LastWriteWins ==
    pc \in {"table", "locate"} =>
        pinyin_table = TableOf(RecordsRead(HeaderSize, offset))

\* C20 witness: table parsing ended after it read two records with the
\* same index and different texts; the table holds the later text.
C20_Witness ==
    /\ pc = "locate"
    /\ \E i \in 1..Len(RecordsRead(HeaderSize, offset)) :
          \E j \in 1..Len(RecordsRead(HeaderSize, offset)) :
             /\ i < j
             /\ RecordsRead(HeaderSize, offset)[i].index
                   = RecordsRead(HeaderSize, offset)[j].index
             /\ RecordsRead(HeaderSize, offset)[i].text
                   # RecordsRead(HeaderSize, offset)[j].text
             /\ LastOfIndex(RecordsRead(HeaderSize, offset), j)
             /\ pinyin_table[RecordsRead(HeaderSize, offset)[j].index]
                   = RecordsRead(HeaderSize, offset)[j].text

\* the iteration the loop of parse_pinyin_table takes from the current state
TableIterAtCursor == TableIter(data, pinyin_table, offset)

\* the length field of the table record at the cursor
RawLength == U16At(data, offset + 2)

\* the loop of parse_pinyin_table is entered on a record with a nonzero
\* index that lies inside the buffer
RecordAtCursor ==
    /\ pc = "table"
    /\ offset < data.len - TableLoopMargin
    /\ U16At(data, offset) # 0
    /\ offset + 4 + 2 * RawLength <= data.len

C22_StopsForThreeReasons ==
    pc = "locate" =>
        \/ data.len - offset < 4
        \/ U16At(data, offset) = 0
        \/ offset + 4 + 2 * RawLength > data.len

\* the number of whole code units of data[lo..hi] before the first zero
\* unit (all of them when none is zero)
UnitsBeforeZero(lo, hi) ==
    CHOOSE k \in 0..((hi - lo) \div 2) :
        /\ k = (hi - lo) \div 2 \/ U16At(data, lo + 2 * k) = 0
        /\ \A j \in 0..(k - 1) : U16At(data, lo + 2 * j) # 0

\* the permissive decoding of those units
TextBeforeZero(lo, hi) ==
    from_utf16_lossy([j \in 1..UnitsBeforeZero(lo, hi) |->
                         U16At(data, lo + 2 * (j - 1))])

\* C23: read_utf16le_string returns, without an error, the permissive
\* decoding of the code units before the first zero unit of its range:
\* for the four strings of the metadata, and for every range of up to 9
\* bytes at the start of the name and example regions.
C23_StopsAtTerminator ==
    (pc = "info_done" /\ info.kind = "Ok") =>
        /\ info.value.name = TextBeforeZero(NameStart, CategoryStart)
        /\ info.value.category = TextBeforeZero(CategoryStart, DescriptionStart)
        /\ info.value.description = TextBeforeZero(DescriptionStart, ExampleStart)
        /\ info.value.example = TextBeforeZero(ExampleStart, HeaderSize)
        /\ \A lo \in {NameStart, ExampleStart} : \A n \in 0..9 :
              read_utf16le_string(data, Slice(lo, lo + n))
                  = Ok(TextBeforeZero(lo, lo + n))

\* C23 witness: the metadata was read from a header whose name region has
\* the unit "X" behind the terminator of "T"; the name is "T".
C23_Witness ==
    /\ pc = "info_done"
    /\ info.kind = "Ok"
    /\ data.name = <<84, 0, 0, 0, 88, 0>>
    /\ info.value.name = <<84>>

\* C27: throughout table parsing the cursor is between 0x1540 and the
\* buffer length, throughout entry decoding it is between 0 and the length
\* of the dictionary slice, and in both loops it never decreases.
C27_CursorBounds ==
    /\ [](/\ pc = "table" => (HeaderSize <= offset /\ offset <= data.len)
          /\ pc = "dict" => (0 <= offset /\ offset <= DictLen))
    /\ [][(pc = "table" /\ pc' \in {"table", "locate"}) \/ pc = "dict"
             => offset' >= offset]_vars

\* C28: when the locator succeeds, the cursor at which table parsing
\* stopped is at most the start offset the locator returns.
C28_TableEndsBeforeDictionary ==
    [][(pc = "locate" /\ pc' = "dict") => offset <= dict_start']_vars

\* C29: the first decode attempt, at the located start, reads
\* same_pinyin_count = 0 and a pinyin_len in 1..255 and adds no Record: it
\* consumes 4 + 2*pinyin_len bytes or fails and moves the cursor by one.
\* Every Record comes from an entry that starts behind the located start.
C29_FirstAttemptEmitsNothing ==
    /\ (pc = "dict" /\ offset = 0) =>
          /\ RawCount = 0
          /\ RawPinyinLen \in 1..255
          /\ IterAtCursor.entries = <<>>
          /\ BodyRuns =>
                IterAtCursor.offset
                   = IF EntryAtCursor.ok THEN 4 + 2 * RawPinyinLen ELSE 1
    /\ \A i \in 1..Len(starts) : starts[i] > 0

\* C29 witness: decoding returned a Record whose entry starts right behind
\* the 4 + 2*pinyin_len bytes the first attempt consumed.
C29_Witness ==
    /\ pc = "done"
    /\ result.kind = "Ok"
    /\ Len(result.value) >= 1
    /\ starts[1] = 4 + 2 * U16At(data, dict_start + 2)

\* some position of the Code has no candidate
HasEmptyPosition == \E i \in 1..Len(self_code) : self_code[i] = <<>>

\* C24: a Code is empty (is_empty is true, has_code is false) exactly when
\* it has zero positions or at least one of its positions has zero
\* candidates.
C24_EmptyIffSomePositionEmpty ==
    /\ call = "is_empty" => (ret <=> (self_code = <<>> \/ HasEmptyPosition))
    /\ call = "has_code" => (ret <=> ~(self_code = <<>> \/ HasEmptyPosition))

\* the product of the sizes of the positions behind position i
RECURSIVE Weight(_, _)
Weight(c, i) ==
    IF i >= Len(c) THEN 1 ELSE Len(c[i + 1]) * Weight(c, i + 1)

\* the candidate of position i in the k-th choice, the first position
\* varying slowest
Chosen(c, i, k) == c[i][(((k - 1) \div Weight(c, i)) % Len(c[i])) + 1]

RECURSIVE ConcatFrom(_, _, _)
ConcatFrom(c, i, k) ==
    IF i > Len(c) THEN <<>> ELSE Chosen(c, i, k) \o ConcatFrom(c, i + 1, k)

\* C25: for a Code whose positions all have a candidate, cartesian_product
\* returns one string per choice of a candidate at each position, the
\* concatenation of the chosen candidates in position order, with the
\* first position varying slowest; for a Code without positions it
\* returns the empty list.
C25_CartesianExpansion ==
    (call = "cartesian_product" /\ ~HasEmptyPosition) =>
        IF self_code = <<>> THEN ret = <<>>
        ELSE /\ Len(ret) = Weight(self_code, 0)
             /\ \A k \in 1..Len(ret) : ret[k] = ConcatFrom(self_code, 1, k)

\* C25 witness: [[a, b], [c, d]] was expanded to ac, ad, bc, bd.
C25_Witness ==
    /\ call = "cartesian_product"
    /\ self_code = << << <<97>>, <<98>> >>, << <<99>>, <<100>> >> >>
    /\ ret = << <<97, 99>>, <<97, 100>>, <<98, 99>>, <<98, 100>> >>

\* C26: for a Code with at least one position whose positions all hold
\* exactly one candidate, cartesian_product_with_separator returns exactly
\* one string, the candidates joined with the separator between every two
\* consecutive positions (the string to_string_with_separator returns).
C26_SingleChoiceEqualsJoin ==
    (/\ call = "cartesian_product_with_separator"
     /\ self_code # <<>>
     /\ \A i \in 1..Len(self_code) : Len(self_code[i]) = 1) =>
        ret = <<to_string_with_separator(self_code, separator)>>

\* the line `pinyin word rank` of Record i of the list, with the ranks of
\* the model written out
PinyinOf(i) == to_string_with_separator(word_list[i].codes, <<39>>)

RankText(i) ==
    CASE word_list[i].rank = 0 -> <<48>>
      [] word_list[i].rank = 500 -> <<53, 48, 48>>
      [] word_list[i].rank = 1000 -> <<49, 48, 48, 48>>

LineOf(i) ==
    PinyinOf(i) \o <<32>> \o word_list[i].word \o <<32>> \o RankText(i)

\* the output for the Records with an index in keep: their lines in input
\* order, the line of the last Record of the list suffixed with
\* `, pinyin rank`, joined with "\r\n"
OutputOf(keep) ==
    LET idx == SelectSeq([i \in 1..Len(word_list) |-> i],
                         LAMBDA i : i \in keep)
    IN join([j \in 1..Len(idx) |->
                IF idx[j] = Len(word_list)
                THEN LineOf(idx[j]) \o <<44, 32>> \o PinyinOf(idx[j])
                     \o <<32>> \o RankText(idx[j])
                ELSE LineOf(idx[j])],
            <<13, 10>>)

\* the Records whose code kind is pinyin
PinyinRecords ==
    {i \in 1..Len(word_list) : word_list[i].code_type = "Pinyin"}

\* export returns an error exactly when the last Record is not pinyin
ExportErrIffLastNotPinyin ==
    /\ ret.kind \in {"Ok", "Err"}
    /\ ret.kind = "Err" <=> word_list[Len(word_list)].code_type # "Pinyin"
    /\ ret.kind = "Err" => ret.error.variant = "InvalidFormat"

\* C30 (as stated): for a non-empty list export returns an error exactly
\* when the last Record is not pinyin; on success the output is one string
\* with the line of every pinyin Record in input order, the last line being
\* that of the last Record with its suffix.
C30_LastRecordDecides ==
    (call = "export" /\ word_list # <<>>) =>
        /\ ExportErrIffLastNotPinyin
        /\ ret.kind = "Ok" => ret.value = <<OutputOf(PinyinRecords)>>

\* C30 (amended): as above, but a pinyin Record whose pinyin string is
\* empty is omitted as well, at every position: when it is the last Record
\* the output has no suffixed line.
C30_LastRecordDecidesNonEmpty ==
    (call = "export" /\ word_list # <<>>) =>
        /\ ExportErrIffLastNotPinyin
        /\ ret.kind = "Ok" =>
              ret.value = <<OutputOf({i \in PinyinRecords : PinyinOf(i) # <<>>})>>

\* C30 witness: a list of a Wubi Record, a pinyin Record and a last pinyin
\* Record without code was exported: the output is the one line of the
\* second Record, without a suffix.
C30_Witness ==
    /\ call = "export"
    /\ word_list = <<RecWubi, RecNiHao, RecNoCode>>
    /\ ret = Ok(<< <<110, 105, 39, 104, 97, 111, 32, 20320, 22909, 32,
                     49, 48, 48, 48>> >>)

====
